---- MODULE Spec2Model ----
(***************************************************************************)
(* DBHelper (xserver_dbhelper/xserver_db_connect.py): construction from a  *)
(* JSON settings file, the scoped session (__enter__/__exit__) over an SSH *)
(* tunnel and a pymysql connection, and the query operations that share    *)
(* the session's single cursor.                                            *)
(*                                                                         *)
(* Python's None is the empty sequence and a present value v is <<v>>, so  *)
(* that None differs from every value, the empty string included.          *)
(***************************************************************************)
EXTENDS Integers, Sequences, FiniteSets, TLC

None == <<>>
Some(v) == <<v>>

(* ------------------------------ bounds -------------------------------- *)
\* rows committed in the table before the session starts
InitRows == 2
\* write calls (execute / executemany) issued in one session
MaxCalls == 2
\* parameter tuples handed to one executemany call
MaxBatch == 2
\* fetchItem generators created in one session
MaxGens == 2

(* ------------------------- construction inputs ------------------------ *)
RequiredKeys ==
    {"db_host", "db_user", "db_password", "ssh_pkey_name", "ssh_host",
     "ssh_port", "ssh_user", "ssh_pkey_pass", "ssh_mysql_host", "ssh_mysql_port"}

\* database argument: absent, the empty string, a name
Databases == {None, Some(""), Some("db")}

\* db_setting_json_path argument: absent, a path with no file, a path with a file
Paths == {None, Some("missing.json"), Some("dir/cfg.json")}

\* what the file at dir/cfg.json holds: text that is not JSON, a JSON value
\* that is not an object, or an object with some keys; intPorts says whether
\* the two port values convert with int()
NoFile == [kind |-> "notjson", keys |-> {}, intPorts |-> FALSE]
Files ==
    {NoFile, [kind |-> "nonobject", keys |-> {}, intPorts |-> FALSE]}
    \cup [kind : {"object"}, keys : SUBSET RequiredKeys, intPorts : BOOLEAN]

\* open(db_setting_json_path) followed by json.load: TRUE when both succeed
open_json_load(path, file) ==
    /\ path = Some("dir/cfg.json")
    /\ file.kind # "notjson"

\* json_data[u"..."] for each required key, with int() on the two ports:
\* TRUE when no lookup or conversion raises
read_settings(file) ==
    /\ file.kind = "object"
    /\ \A k \in RequiredKeys : k \in file.keys
    /\ file.intPorts

\* the settings lookup with one key read through a default instead of
\* json_data[...]: its absence no longer raises
read_settings_lenient(file) ==
    /\ file.kind = "object"
    /\ \A k \in RequiredKeys \ {"ssh_pkey_pass"} : k \in file.keys
    /\ file.intPorts

\* the constructor with the database check placed after the settings block
DBHelper_init_check_last(db, path, file) ==
    IF ~(open_json_load(path, file) /\ read_settings(file))
    THEN [result |-> "NotDBSettingJsonFile", openAttempted |-> TRUE, db_name |-> None]
    ELSE IF db = None
    THEN [result |-> "NotDatabaseSet", openAttempted |-> TRUE, db_name |-> None]
    ELSE [result |-> "ok", openAttempted |-> TRUE, db_name |-> db]

\* the constructor with the lenient settings lookup
DBHelper_init_lenient(db, path, file) ==
    IF db = None
    THEN [result |-> "NotDatabaseSet", openAttempted |-> FALSE, db_name |-> None]
    ELSE IF open_json_load(path, file) /\ read_settings_lenient(file)
    THEN [result |-> "ok", openAttempted |-> TRUE, db_name |-> db]
    ELSE [result |-> "NotDBSettingJsonFile", openAttempted |-> TRUE, db_name |-> db]

\* DBHelper.__init__: result is "ok" or the exception raised; openAttempted
\* says whether open() was called; db_name is self.db_name (set before the
\* settings block, so it survives a NotDBSettingJsonFile)
DBHelper_init(db, path, file) ==
    IF db = None
    THEN [result |-> "NotDatabaseSet", openAttempted |-> FALSE, db_name |-> None]
    ELSE IF open_json_load(path, file) /\ read_settings(file)
    THEN [result |-> "ok", openAttempted |-> TRUE, db_name |-> db]
    ELSE [result |-> "NotDBSettingJsonFile", openAttempted |-> TRUE, db_name |-> db]

(* ------------------------ database and cursor ------------------------- *)
\* a row is tagged with the write call that produced it (0: present before
\* the session) and its position in that call's parameter list
InitTable == [i \in 1..InitRows |-> [call |-> 0, idx |-> i]]

SelectSqls == {"SELECT_ALL", "SELECT_FIRST"}

\* the result set the server returns for a SELECT over the rows it is given
Query(sql, data) ==
    IF sql = "SELECT_ALL" THEN data
    ELSE SelectSeq(data, LAMBDA r : r.idx = 1)

\* self.cur after con.cursor(), and after a statement that returns no rows
NewCursor == [rows |-> <<>>, rownumber |-> 0, rowcount |-> 0]

\* self.cur.execute(sql, args) for a SELECT: the cursor buffers the result
\* set and is positioned before its first row
cur_execute(sql, data) ==
    [rows |-> Query(sql, data), rownumber |-> 0, rowcount |-> Len(Query(sql, data))]

\* self.cur.execute(sql, args) for a write that changed n rows
cur_execute_write(n) == [rows |-> <<>>, rownumber |-> 0, rowcount |-> n]

\* self.cur.fetchone(): the row at the cursor's position, or None at the end
cur_fetchone(c) ==
    IF c.rownumber >= Len(c.rows)
    THEN [result |-> None, cur |-> c]
    ELSE [result |-> Some(c.rows[c.rownumber + 1]),
          cur |-> [c EXCEPT !.rownumber = @ + 1]]

\* self.cur.fetchall(): every row from the cursor's position to the end
cur_fetchall(c) ==
    [result |-> SubSeq(c.rows, c.rownumber + 1, Len(c.rows)),
     cur |-> [c EXCEPT !.rownumber = Len(c.rows)]]

\* DBHelper.fetch on cursor state c is execute then fetchall on self.cur
fetch_on(sql, data) == cur_fetchall(cur_execute(sql, data))

\* one turn of fetchItem's loop that reads a row to test for the end and
\* reads again for the row it yields
fetchItem_step_twice(c) ==
    LET f == cur_fetchone(c)
    IN  IF f.result = None THEN f ELSE cur_fetchone(f.cur)

\* one turn of fetchItem's loop: fetchone, then break on None or yield
fetchItem_step(c) == cur_fetchone(c)

\* DataFrame(records): the columns are the record keys, one row of values
\* per record
DataFrame(records) ==
    [columns |-> IF Len(records) = 0 THEN <<>> ELSE <<"call", "idx">>,
     values |-> [i \in 1..Len(records) |-> <<records[i].call, records[i].idx>>]]

(* ------------------------------- state -------------------------------- *)
VARIABLES
    pc,                   \* "new", "init_raised", "constructed", "enter_raised",
                          \* "body", "executemany", "exited"
    database,             \* __init__'s database argument
    db_setting_json_path, \* __init__'s path argument
    file,                 \* what the settings file holds
    initResult,           \* None, or Some(outcome of __init__)
    server,               \* the SSH tunnel: "none", "started", "stopped"
    con,                  \* the connection: "none", "open", "closed"
    cur,                  \* self.cur
    enterResult,          \* "none", "ok", "raised"
    exitResult,           \* "none", "returned", "raised"
    closeAttempted,       \* __exit__ called self.con.close()
    stopAttempted,        \* __exit__ called self.server.stop()
    bodyExc,              \* the scoped block ended with an exception
    committed,            \* rows committed in the database
    pending,              \* rows written in the open transaction
    calls,                \* the write calls of the session, in order
    ret,                  \* the last query operation and what it returned
    gens                  \* the fetchItem generators created, in order

vars == <<pc, database, db_setting_json_path, file, initResult, server, con, cur,
          enterResult, exitResult, closeAttempted, stopAttempted, bodyExc,
          committed, pending, calls, ret, gens>>

construction == <<database, db_setting_json_path, file, initResult>>
lifecycle == <<server, con, enterResult, exitResult, closeAttempted, stopAttempted, bodyExc>>

\* what this session's queries see: committed rows and its own open transaction
visible == committed \o pending

NoRet == [op |-> "none", val |-> None, raised |-> FALSE]

\* the state every run starts in, apart from the constructor's inputs
Fresh ==
    /\ pc = "new"
    /\ initResult = None
    /\ server = "none"
    /\ con = "none"
    /\ cur = NewCursor
    /\ enterResult = "none"
    /\ exitResult = "none"
    /\ closeAttempted = FALSE
    /\ stopAttempted = FALSE
    /\ bodyExc = FALSE
    /\ committed = InitTable
    /\ pending = <<>>
    /\ calls = <<>>
    /\ ret = NoRet
    /\ gens = <<>>

\* any constructor call: a file is there to read only at dir/cfg.json
Init ==
    /\ database \in Databases
    /\ db_setting_json_path \in Paths
    /\ file \in Files
    /\ (db_setting_json_path # Some("dir/cfg.json") => file = NoFile)
    /\ Fresh

\* a constructor call that hands over a database name and a complete file
GoodFile == [kind |-> "object", keys |-> RequiredKeys, intPorts |-> TRUE]
InitSession ==
    /\ database = Some("db")
    /\ db_setting_json_path = Some("dir/cfg.json")
    /\ file = GoodFile
    /\ Fresh

(* ------------------------------ lifecycle ----------------------------- *)
\* DBHelper(database, db_setting_json_path)
__init__ ==
    /\ pc = "new"
    /\ LET r == DBHelper_init(database, db_setting_json_path, file)
       IN  /\ initResult' = Some(r)
           /\ pc' = IF r.result = "ok" THEN "constructed" ELSE "init_raised"
    /\ UNCHANGED <<database, db_setting_json_path, file, cur, committed, pending,
                   calls, ret, gens>>
    /\ UNCHANGED lifecycle

\* with DBHelper(...) as helper: server.start(), pymysql.connect(), con.cursor();
\* the first of them to raise ends __enter__, and __exit__ is then not called
__enter__ ==
    /\ pc = "constructed"
    /\ \E outcome \in {"ok", "start_raises", "connect_raises", "cursor_raises"} :
        /\ server' = IF outcome = "start_raises" THEN "none" ELSE "started"
        /\ con' = IF outcome \in {"start_raises", "connect_raises"} THEN "none" ELSE "open"
        /\ enterResult' = IF outcome = "ok" THEN "ok" ELSE "raised"
        /\ pc' = IF outcome = "ok" THEN "body" ELSE "enter_raised"
    /\ cur' = NewCursor
    /\ UNCHANGED construction
    /\ UNCHANGED <<exitResult, closeAttempted, stopAttempted, bodyExc,
                   committed, pending, calls, ret, gens>>

\* the scoped block ends, normally or with an exception, and __exit__ runs:
\* self.con.close() then self.server.stop(), neither guarded; a call that
\* raises leaves its resource as it was
__exit__ ==
    /\ pc = "body"
    /\ pc' = "exited"
    /\ \E exc \in BOOLEAN : bodyExc' = exc
    /\ closeAttempted' = TRUE
    /\ \E closeRaises \in BOOLEAN, stopRaises \in BOOLEAN :
        IF closeRaises
        THEN /\ con' = con
             /\ stopAttempted' = FALSE
             /\ server' = server
             /\ exitResult' = "raised"
        ELSE /\ con' = "closed"
             /\ stopAttempted' = TRUE
             /\ IF stopRaises
                THEN /\ server' = server
                     /\ exitResult' = "raised"
                ELSE /\ server' = "stopped"
                     /\ exitResult' = "returned"
    /\ ret' = [op |-> "__exit__", val |-> None, raised |-> exitResult' = "raised"]
    /\ UNCHANGED construction
    /\ UNCHANGED <<cur, enterResult, committed, pending, calls, gens>>

(* --------------------------- query operations ------------------------- *)
\* every generator suspended at its yield, other than g, has had the shared
\* cursor used under it (history, read by the properties only)
OthersDisturbed(gs, g) ==
    [i \in 1..Len(gs) |->
        IF i # g /\ gs[i].pc = "suspended"
        THEN [gs[i] EXCEPT !.disturbed = TRUE]
        ELSE gs[i]]

\* helper.fetch(sql, args): execute on self.cur, return fetchall()
fetch ==
    /\ pc = "body"
    /\ \E sql \in SelectSqls :
        LET f == fetch_on(sql, visible)
        IN  /\ cur' = f.cur
            /\ ret' = [op |-> "fetch", sql |-> sql, val |-> Some(f.result),
                       raised |-> FALSE]
    /\ gens' = OthersDisturbed(gens, 0)
    /\ UNCHANGED <<pc, committed, pending, calls>>
    /\ UNCHANGED construction
    /\ UNCHANGED lifecycle

\* helper.dataframe(sql, args): DataFrame(self.fetch(sql, args))
dataframe ==
    /\ pc = "body"
    /\ \E sql \in SelectSqls :
        LET f == fetch_on(sql, visible)
        IN  /\ cur' = f.cur
            /\ ret' = [op |-> "dataframe", sql |-> sql,
                       val |-> Some(DataFrame(f.result)), raised |-> FALSE]
    /\ gens' = OthersDisturbed(gens, 0)
    /\ UNCHANGED <<pc, committed, pending, calls>>
    /\ UNCHANGED construction
    /\ UNCHANGED lifecycle

\* helper.fetchItem(sql, args): the call only creates the generator; nothing
\* of its body runs before the first next()
fetchItem ==
    /\ pc = "body"
    /\ Len(gens) < MaxGens
    /\ \E sql \in SelectSqls :
        gens' = Append(gens, [pc |-> "created", sql |-> sql, yielded |-> <<>>,
                              expected |-> <<>>, epoch |-> 0, steps |-> 0,
                              disturbed |-> FALSE])
    /\ ret' = [op |-> "fetchItem", val |-> Some(Len(gens) + 1), raised |-> FALSE]
    /\ UNCHANGED <<pc, cur, committed, pending, calls>>
    /\ UNCHANGED construction
    /\ UNCHANGED lifecycle

\* next() on generator g: the first one runs self.cur.execute(sql, args);
\* each one runs a turn of the loop on self.cur and yields the row or ends.
\* expected records what fetch returns for the generator's query on the data
\* it was executed on, and epoch how many write calls had been made by then
\* (history, read by the properties only).
fetchItem_next(g) ==
    /\ pc = "body"
    /\ g \in 1..Len(gens)
    /\ gens[g].pc \in {"created", "suspended"}
    /\ LET first == gens[g].pc = "created"
           c0 == IF first THEN cur_execute(gens[g].sql, visible) ELSE cur
           f == fetchItem_step(c0)
           gs == OthersDisturbed(gens, g)
       IN  /\ cur' = f.cur
           /\ gens' = [gs EXCEPT
                ![g].pc = IF f.result = None THEN "done" ELSE "suspended",
                ![g].yielded = IF f.result = None THEN @ ELSE Append(@, f.result[1]),
                ![g].expected = IF first THEN fetch_on(gens[g].sql, visible).result ELSE @,
                ![g].epoch = IF first THEN Len(calls) ELSE @,
                ![g].steps = @ + 1]
           /\ ret' = [op |-> "next", val |-> f.result, raised |-> f.result = None]
    /\ UNCHANGED <<pc, committed, pending, calls>>
    /\ UNCHANGED construction
    /\ UNCHANGED lifecycle

\* con.commit(): the open transaction becomes committed
con_commit(rows) == [committed |-> committed \o rows, pending |-> <<>>]

\* helper.execute(sql, args): self.cur.execute then self.con.commit(); the
\* statement either raises, leaving the transaction as it was, or changes
\* one row; nothing is returned
execute ==
    /\ pc = "body"
    /\ Len(calls) < MaxCalls
    /\ \E raises \in BOOLEAN :
        LET id == Len(calls) + 1
            row == [call |-> id, idx |-> 1]
        IN  IF raises
            THEN /\ cur' = NewCursor
                 /\ calls' = Append(calls, [kind |-> "execute", n |-> 1, applied |-> 0,
                                            status |-> "stmt_raised"])
                 /\ ret' = [op |-> "execute", val |-> None, raised |-> TRUE]
                 /\ UNCHANGED <<committed, pending>>
            ELSE /\ cur' = cur_execute_write(1)
                 /\ calls' = Append(calls, [kind |-> "execute", n |-> 1, applied |-> 1,
                                            status |-> "returned"])
                 /\ committed' = con_commit(Append(pending, row)).committed
                 /\ pending' = con_commit(Append(pending, row)).pending
                 /\ ret' = [op |-> "execute", val |-> None, raised |-> FALSE]
    /\ gens' = OthersDisturbed(gens, 0)
    /\ UNCHANGED pc
    /\ UNCHANGED construction
    /\ UNCHANGED lifecycle

\* helper.executemany(sql, list) is entered with n parameter tuples
executemany ==
    /\ pc = "body"
    /\ Len(calls) < MaxCalls
    /\ \E n \in 1..MaxBatch :
        calls' = Append(calls, [kind |-> "executemany", n |-> n, applied |-> 0,
                                status |-> "running"])
    /\ pc' = "executemany"
    /\ cur' = NewCursor
    /\ gens' = OthersDisturbed(gens, 0)
    /\ ret' = NoRet
    /\ UNCHANGED <<committed, pending>>
    /\ UNCHANGED construction
    /\ UNCHANGED lifecycle

\* a batch that commits after each parameter tuple
executemany_apply_autocommit ==
    /\ pc = "executemany"
    /\ LET id == Len(calls)
           c == calls[id]
       IN  /\ c.applied < c.n
           /\ calls' = [calls EXCEPT ![id].applied = @ + 1]
           /\ committed' = con_commit(Append(pending, [call |-> id, idx |-> c.applied + 1])).committed
           /\ pending' = <<>>
           /\ cur' = [cur EXCEPT !.rowcount = @ + 1]
    /\ UNCHANGED <<pc, ret, gens>>
    /\ UNCHANGED construction
    /\ UNCHANGED lifecycle

\* self.cur.executemany applies the statement to the next parameter tuple
executemany_apply ==
    /\ pc = "executemany"
    /\ LET id == Len(calls)
           c == calls[id]
       IN  /\ c.applied < c.n
           /\ calls' = [calls EXCEPT ![id].applied = @ + 1]
           /\ pending' = Append(pending, [call |-> id, idx |-> c.applied + 1])
           /\ cur' = [cur EXCEPT !.rowcount = @ + 1]
    /\ UNCHANGED <<pc, committed, ret, gens>>
    /\ UNCHANGED construction
    /\ UNCHANGED lifecycle

\* the statement raises on the next parameter tuple: executemany ends there,
\* with neither commit nor rollback, and the rows already written stay in
\* the open transaction
executemany_raise ==
    /\ pc = "executemany"
    /\ LET id == Len(calls)
       IN  /\ calls[id].applied < calls[id].n
           /\ calls' = [calls EXCEPT ![id].status = "stmt_raised"]
    /\ pc' = "body"
    /\ ret' = [op |-> "executemany", val |-> None, raised |-> TRUE]
    /\ UNCHANGED <<cur, committed, pending, gens>>
    /\ UNCHANGED construction
    /\ UNCHANGED lifecycle

\* every tuple is applied: self.con.commit(), and executemany returns nothing
executemany_commit ==
    /\ pc = "executemany"
    /\ LET id == Len(calls)
       IN  /\ calls[id].applied = calls[id].n
           /\ calls' = [calls EXCEPT ![id].status = "returned"]
    /\ committed' = con_commit(pending).committed
    /\ pending' = con_commit(pending).pending
    /\ pc' = "body"
    /\ ret' = [op |-> "executemany", val |-> None, raised |-> FALSE]
    /\ UNCHANGED <<cur, gens>>
    /\ UNCHANGED construction
    /\ UNCHANGED lifecycle

(* --------------------------- specification ---------------------------- *)
Next ==
    \/ __init__
    \/ __enter__
    \/ __exit__
    \/ fetch
    \/ dataframe
    \/ fetchItem
    \/ \E g \in 1..MaxGens : fetchItem_next(g)
    \/ execute
    \/ executemany
    \/ executemany_apply
    \/ executemany_raise
    \/ executemany_commit

\* a session, from construction to scoped exit
Spec == InitSession /\ [][Next]_vars

\* a session that only reads: the table stays as it was
NextRead ==
    \/ __init__
    \/ __enter__
    \/ __exit__
    \/ fetch
    \/ dataframe
    \/ fetchItem
    \/ \E g \in 1..MaxGens : fetchItem_next(g)
SpecRead == InitSession /\ [][NextRead]_vars

\* a session that writes and reads back with fetch
NextWrite ==
    \/ __init__
    \/ __enter__
    \/ __exit__
    \/ fetch
    \/ execute
    \/ executemany
    \/ executemany_apply
    \/ executemany_raise
    \/ executemany_commit
SpecWrite == InitSession /\ [][NextWrite]_vars

\* construction alone, over every constructor input
NextInit == __init__
SpecInit == Init /\ [][NextInit]_vars

(* ----------------------------- properties ---------------------------- *)
IsPrefix(y, e) == Len(y) <= Len(e) /\ y = SubSeq(e, 1, Len(y))

\* the committed rows written by write call c
CommittedOf(c) == SelectSeq(committed, LAMBDA r : r.call = c)

\* the rows write call c was asked to write, in the order of its parameters
RowsOf(c) == [i \in 1..calls[c].n |-> [call |-> c, idx |-> i]]

Constructed == initResult # None

\* C1: once __exit__ has finished, by returning or by raising, it has called
\* both self.con.close() and self.server.stop(), whether or not the scoped
\* block raised and whether or not close() raised.
C1_ExitAttemptsBothTeardownSteps ==
    exitResult # "none" => closeAttempted /\ stopAttempted

\* C2: when __enter__ has raised, no tunnel is left started and no
\* connection is left open.
C2_FailedEnterLeaksNothing ==
    enterResult = "raised" => server # "started" /\ con # "open"

\* C3: __exit__ never raises, whichever teardown step fails.
C3_ExitNeverRaises ==
    exitResult # "raised"

\* C4 (as claimed): a database name that is None or the empty string makes
\* construction raise NotDatabaseSet before open() is called, whatever the
\* settings path.
C4_MissingOrEmptyNameRaisesBeforeOpen ==
    (Constructed /\ database \in {None, Some("")}) =>
        /\ initResult[1].result = "NotDatabaseSet"
        /\ ~initResult[1].openAttempted

\* C4 (amended): a database name that is None makes construction raise
\* NotDatabaseSet before open() is called, whatever the settings path; the
\* empty string counts as a name, so construction goes on to open the
\* settings file and never raises NotDatabaseSet.
C4_AbsentNameRaisesBeforeOpen ==
    Constructed =>
        /\ database = None =>
            /\ initResult[1].result = "NotDatabaseSet"
            /\ ~initResult[1].openAttempted
        /\ database = Some("") =>
            /\ initResult[1].result # "NotDatabaseSet"
            /\ initResult[1].openAttempted

\* C4 witness: construction was called without a name and with a complete
\* settings file, and raised NotDatabaseSet
C4_Witness ==
    /\ Constructed
    /\ database = None
    /\ db_setting_json_path = Some("dir/cfg.json")
    /\ file = GoodFile
    /\ initResult[1].result = "NotDatabaseSet"

\* C5: with a database name, construction raises NotDBSettingJsonFile and
\* nothing else whenever the settings file cannot be opened, is not JSON or
\* lacks a required key; it succeeds only with every required key present;
\* and construction starts no tunnel and opens no connection.
C5_BadSettingsRaiseNotDBSettingJsonFile ==
    (Constructed /\ database # None) =>
        /\ initResult[1].result \in {"ok", "NotDBSettingJsonFile"}
        /\ ( \/ db_setting_json_path # Some("dir/cfg.json")
             \/ file.kind = "notjson"
             \/ \E k \in RequiredKeys : k \notin file.keys )
           => initResult[1].result = "NotDBSettingJsonFile"
        /\ initResult[1].result = "ok" => \A k \in RequiredKeys : k \in file.keys
        /\ server = "none"
        /\ con = "none"

\* C5 witness: a JSON object lacking exactly one required key was read and
\* construction raised NotDBSettingJsonFile
C5_Witness ==
    /\ Constructed
    /\ database = Some("db")
    /\ file.kind = "object"
    /\ file.keys = RequiredKeys \ {"ssh_pkey_pass"}
    /\ file.intPorts
    /\ initResult[1].result = "NotDBSettingJsonFile"

\* C6: a fetchItem generator whose consumption no other operation on the
\* session interleaves yields one record per next(), always a prefix of
\* what fetch returns for the same SQL on the same data, and ends, after
\* the last of them, with exactly that sequence; a fetch of the same SQL
\* made after it, with the data unchanged, returns the same records.
C6_LazyYieldsWhatFetchReturns ==
    \A g \in 1..Len(gens) :
        ~gens[g].disturbed =>
            /\ IsPrefix(gens[g].yielded, gens[g].expected)
            /\ gens[g].pc = "created" => gens[g].steps = 0
            /\ gens[g].pc = "suspended" => Len(gens[g].yielded) = gens[g].steps
            /\ gens[g].pc = "done" =>
                /\ gens[g].yielded = gens[g].expected
                /\ gens[g].steps = Len(gens[g].expected) + 1
                /\ ( /\ ret.op = "fetch"
                     /\ ret.sql = gens[g].sql
                     /\ gens[g].epoch = Len(calls) )
                   => ret.val = Some(gens[g].yielded)

\* C6 witness: a generator over two or more records was consumed to its
\* end undisturbed, and fetch was then called with the same SQL
C6_Witness ==
    \E g \in 1..Len(gens) :
        /\ gens[g].pc = "done"
        /\ ~gens[g].disturbed
        /\ Len(gens[g].yielded) >= 2
        /\ ret.op = "fetch"
        /\ ret.sql = gens[g].sql

C8_WriteReturnsRowCount ==
    (ret.op \in {"execute", "executemany"} /\ ~ret.raised) =>
        ret.val = Some(cur.rowcount)

\* C9: whatever else is called on the session between two next() calls, a
\* fetchItem generator yields records of its own query only, in order, and
\* ends only after the last of them.
C9_GeneratorIsolated ==
    \A g \in 1..Len(gens) :
        /\ IsPrefix(gens[g].yielded, gens[g].expected)
        /\ gens[g].pc = "done" => gens[g].yielded = gens[g].expected

\* C10: no row written by an execute or executemany call that raised is
\* ever committed.
C10_FailedWriteNeverCommitted ==
    \A c \in 1..Len(calls) :
        calls[c].status = "stmt_raised" => CommittedOf(c) = <<>>

====
